---- MODULE Spec2Model ----
(***************************************************************************)
(* Model of editor/src/plugins/sim/new_des_model/car.rs: the per-vehicle   *)
(* rolling history (last_steps), its trimming, the reconstruction of the   *)
(* vehicle's body (get_draw_car) and the interpolation primitives          *)
(* (percent, lerp); and of ezgui/src/canvas.rs: the canvas's handling of   *)
(* mouse events (handle_event) and its covered areas.                      *)
(*                                                                         *)
(* Distance and Duration are f64 wrappers in the source; they are modelled *)
(* as integers (a fixed unit) and exact fractions, so floating rounding    *)
(* and tolerance are not modelled.                                         *)
(* Option<T> is modelled as a sequence: <<>> is None and <<x>> is Some(x). *)
(* A PolyLine is modelled as the sequence of the slices it is made of,     *)
(* each slice being [on, start, end]; its length is the sum of end-start.  *)
(***************************************************************************)
EXTENDS Integers, Sequences, FiniteSets, TLC

VARIABLES car, exited, out, canvas

vars == <<car, exited, out, canvas>>

(***************************************************************************)
(* Bounds of the model.                                                    *)
(***************************************************************************)
NumSegs == 3
MaxVehicleLen == 3
MaxPath == 3
MaxHist == 3
MaxFront == 4

\* The segments (Traversable) of the map; segment k has length k - 1, so that
\* the map holds one segment of every length 0..NumSegs-1.
Segs == 1..NumSegs
map == [on \in Segs |-> on - 1]
CarIDs == {1, 2}
VehicleLens == 0..MaxVehicleLen
Fronts == (0 - 1)..MaxFront
Times == {0, 1}
Dists == {0, 1}

SeqsUpTo(S, n) == UNION {[1..k -> S] : k \in 0..n}

None == <<>>
Some(x) == <<x>>

Max(a, b) == IF a >= b THEN a ELSE b

(***************************************************************************)
(* CarState, TimeInterval, DistanceInterval (car.rs:85-109).               *)
(***************************************************************************)
TimeInterval == {[start |-> s, end |-> e] : s \in Times, e \in Times}
DistanceInterval == {[start |-> s, end |-> e] : s \in Dists, e \in Dists}

Queued == <<"Queued">>
Crossing(ti, di) == <<"Crossing", ti, di>>

CarState ==
    {Queued} \cup {Crossing(ti, di) :
                     ti \in {t \in TimeInterval : t.start < t.end},
                     di \in {d \in DistanceInterval : d.start <= d.end}}

(***************************************************************************)
(* The map provider: Traversable::length, Traversable::slice and the       *)
(* PolyLine operations.  A slice request is degenerate (None) when it is   *)
(* zero-length or out of the segment's range.                              *)
(***************************************************************************)
length(on, m) == m[on]

slice(on, start, end, m) ==
    IF start < 0 \/ end > length(on, m) \/ start >= end
    THEN None
    ELSE Some(<<[on |-> on, start |-> start, end |-> end]>>)

\* .map(|(pl, _)| pl.points().clone()).unwrap_or_else(Vec::new)
points_or_empty(opt) == IF opt = None THEN <<>> ELSE opt[1]

PolyLine_append(first, second) == first \o second

PolyLine_new(pts) == pts

RECURSIVE PolyLine_length(_)
PolyLine_length(pl) ==
    IF pl = <<>> THEN 0
    ELSE (pl[1].end - pl[1].start) + PolyLine_length(Tail(pl))

tmp_get_vehicle_type(id) == <<"vehicle_type_of", id>>

\* The accumulated length of a sequence of segments.
RECURSIVE TotalLen(_, _)
TotalLen(steps, m) ==
    IF steps = <<>> THEN 0
    ELSE length(steps[1], m) + TotalLen(Tail(steps), m)

IsPrefix(s, t) == Len(s) <= Len(t) /\ s = SubSeq(t, 1, Len(s))

(***************************************************************************)
(* Car::trim_last_steps (car.rs:22-33).  drain_keep is the for loop over   *)
(* self.last_steps.drain(..): rest is what is still to be drained.         *)
(***************************************************************************)
RECURSIVE drain_keep(_, _, _, _, _)
RECURSIVE drain_keep_break_before_push(_, _, _, _, _)
RECURSIVE drain_keep_strictly_greater(_, _, _, _, _)
RECURSIVE drain_keep_push_front(_, _, _, _, _)

\* Mutant: the threshold is tested before the segment is kept.
drain_keep_break_before_push(rest, keep, len, vehicle_len, m) ==
    IF rest = <<>> THEN keep
    ELSE LET on == rest[1]
             len2 == len + length(on, m)
         IN IF len2 >= vehicle_len
            THEN keep
            ELSE drain_keep_break_before_push(Tail(rest), Append(keep, on), len2,
                                              vehicle_len, m)

\* Mutant: the loop breaks on len > vehicle_len.
drain_keep_strictly_greater(rest, keep, len, vehicle_len, m) ==
    IF rest = <<>> THEN keep
    ELSE LET on == rest[1]
             len2 == len + length(on, m)
             keep2 == Append(keep, on)
         IN IF len2 > vehicle_len
            THEN keep2
            ELSE drain_keep_strictly_greater(Tail(rest), keep2, len2, vehicle_len, m)

\* Mutant: keep.push_front(on) instead of keep.push_back(on).
drain_keep_push_front(rest, keep, len, vehicle_len, m) ==
    IF rest = <<>> THEN keep
    ELSE LET on == rest[1]
             len2 == len + length(on, m)
             keep2 == <<on>> \o keep
         IN IF len2 >= vehicle_len
            THEN keep2
            ELSE drain_keep_push_front(Tail(rest), keep2, len2, vehicle_len, m)

drain_keep(rest, keep, len, vehicle_len, m) ==
    IF rest = <<>> THEN keep
    ELSE LET on == rest[1]
             len2 == len + length(on, m)
             keep2 == Append(keep, on)
         IN IF len2 >= vehicle_len
            THEN keep2
            ELSE drain_keep(Tail(rest), keep2, len2, vehicle_len, m)

\* Mutant: self.path = keep, which leaves last_steps drained.
trim_last_steps_assigns_path(self, m) ==
    [self EXCEPT !.last_steps = <<>>,
                 !.path = drain_keep(self.last_steps, <<>>, 0, self.vehicle_len, m)]

trim_last_steps(self, m) ==
    [self EXCEPT !.last_steps = drain_keep(self.last_steps, <<>>, 0, self.vehicle_len, m)]

(***************************************************************************)
(* Car::get_draw_car (car.rs:35-81).  The value returned is                *)
(*   [kind, msg, input, trace]                                             *)
(* kind "ok" with input = Some(DrawCarInput), or kind "panic" with the     *)
(* panic's message and no input.  trace records, in the order they are     *)
(* made, the slice requests: [from, idx, on, start, end], from being       *)
(* "path" or "last_steps" and idx the 0-based index read.                  *)
(***************************************************************************)
AssertFrontMsg == <<"assertion failed: front >= Distance::ZERO">>
UnwrapNoneMsg == <<"called Option::unwrap() on a None value">>
IndexMsg == <<"index out of bounds">>
SpawnedTooCloseMsg(id) == <<id, " spawned too close to short stuff">>

Request(from, idx, on, start, end) ==
    [from |-> from, idx |-> idx, on |-> on, start |-> start, end |-> end]

Panic(msg, trace) == [kind |-> "panic", msg |-> msg, body |-> <<>>, trace |-> trace]

\* Mutant: the slice of the current segment starts at 0.
body_whole_from_zero(self, front, m) ==
    LET req == Request("path", 0, self.path[1], 0, front)
        got == slice(req.on, req.start, req.end, m)
    IN IF got = None
       THEN Panic(UnwrapNoneMsg, <<req>>)
       ELSE [kind |-> "ok", msg |-> <<>>, body |-> got[1], trace |-> <<req>>]

\* Mutant: .unwrap_or_else(Vec::new) instead of .unwrap().
body_whole_unwrap_or_empty(self, front, m) ==
    LET req == Request("path", 0, self.path[1], front - self.vehicle_len, front)
        got == slice(req.on, req.start, req.end, m)
    IN [kind |-> "ok", msg |-> <<>>, body |-> points_or_empty(got), trace |-> <<req>>]

\* car.rs:38-41: self.path[0].slice(front - self.vehicle_len, front, map).unwrap().0
body_whole(self, front, m) ==
    LET req == Request("path", 0, self.path[1], front - self.vehicle_len, front)
        got == slice(req.on, req.start, req.end, m)
    IN IF got = None
       THEN Panic(UnwrapNoneMsg, <<req>>)
       ELSE [kind |-> "ok", msg |-> <<>>, body |-> got[1], trace |-> <<req>>]

\* car.rs:44-49: the locals result, leftover and i before the while loop.
walk_init(self, front, m) ==
    LET req == Request("path", 0, self.path[1], 0, front)
    IN [result |-> points_or_empty(slice(req.on, req.start, req.end, m)),
        leftover |-> self.vehicle_len - front,
        i |-> 0,
        trace |-> <<req>>]

\* Mutant: PolyLine::append(result, piece).
walk_step_append_behind(self, st, m) ==
    LET on == self.last_steps[st.i + 1]
        len == length(on, m)
        start == Max(len - st.leftover, 0)
        req == Request("last_steps", st.i, on, start, len)
        piece == points_or_empty(slice(on, start, len, m))
    IN [result |-> PolyLine_append(st.result, piece),
        leftover |-> st.leftover - len,
        i |-> st.i + 1,
        trace |-> Append(st.trace, req)]

\* Mutant: the slice is not clipped to leftover (start is always 0).
walk_step_whole_segment(self, st, m) ==
    LET on == self.last_steps[st.i + 1]
        len == length(on, m)
        start == 0
        req == Request("last_steps", st.i, on, start, len)
        piece == points_or_empty(slice(on, start, len, m))
    IN [result |-> PolyLine_append(piece, st.result),
        leftover |-> st.leftover - len,
        i |-> st.i + 1,
        trace |-> Append(st.trace, req)]

\* car.rs:54-62: one iteration of the while loop, after the exhaustion test.
walk_step(self, st, m) ==
    LET on == self.last_steps[st.i + 1]
        len == length(on, m)
        start == Max(len - st.leftover, 0)
        req == Request("last_steps", st.i, on, start, len)
        piece == points_or_empty(slice(on, start, len, m))
    IN [result |-> PolyLine_append(piece, st.result),
        leftover |-> st.leftover - len,
        i |-> st.i + 1,
        trace |-> Append(st.trace, req)]

RECURSIVE walk_loop(_, _, _)
RECURSIVE walk_loop_truncating(_, _, _)
RECURSIVE walk_loop_exhausted_early(_, _, _)

\* Mutant: an exhausted history ends the loop instead of panicking.
walk_loop_truncating(self, st, m) ==
    IF ~(st.leftover > 0) \/ st.i = Len(self.last_steps)
    THEN [kind |-> "ok", msg |-> <<>>, body |-> PolyLine_new(st.result),
          trace |-> st.trace]
    ELSE walk_loop_truncating(self, walk_step(self, st, m), m)

\* Mutant: the exhaustion test is i + 1 == self.last_steps.len().
walk_loop_exhausted_early(self, st, m) ==
    IF ~(st.leftover > 0)
    THEN [kind |-> "ok", msg |-> <<>>, body |-> PolyLine_new(st.result),
          trace |-> st.trace]
    ELSE IF st.i + 1 >= Len(self.last_steps)
    THEN Panic(SpawnedTooCloseMsg(self.id), st.trace)
    ELSE walk_loop_exhausted_early(self, walk_step(self, st, m), m)

\* car.rs:50-65: while leftover > Distance::ZERO { ... } PolyLine::new(result)
walk_loop(self, st, m) ==
    IF ~(st.leftover > 0)
    THEN [kind |-> "ok", msg |-> <<>>, body |-> PolyLine_new(st.result),
          trace |-> st.trace]
    ELSE IF st.i = Len(self.last_steps)
    THEN Panic(SpawnedTooCloseMsg(self.id), st.trace)
    ELSE walk_loop(self, walk_step(self, st, m), m)

\* Mutant: the two arms of the match are swapped.
draw_state_swapped(state) == IF state = Queued THEN "Moving" ELSE "Stuck"

\* car.rs:72-76
draw_state(state) == IF state = Queued THEN "Stuck" ELSE "Moving"

\* car.rs:68-80
DrawCarInput(self, body) ==
    [id |-> self.id,
     waiting_for_turn |-> None,
     stopping_trace |-> None,
     state |-> draw_state(self.state),
     vehicle_type |-> tmp_get_vehicle_type(self.id),
     on |-> self.path[1],
     body |-> body]

Returned(self, b) ==
    IF b.kind = "panic"
    THEN [kind |-> "panic", msg |-> b.msg, input |-> None, trace |-> b.trace]
    ELSE [kind |-> "ok", msg |-> <<>>, input |-> Some(DrawCarInput(self, b.body)),
          trace |-> b.trace]

\* Mutant: the assertion on front is missing.
get_draw_car_no_assert(self, front, m) ==
    IF Len(self.path) = 0
    THEN Returned(self, Panic(IndexMsg, <<>>))
    ELSE IF front >= self.vehicle_len
    THEN Returned(self, body_whole(self, front, m))
    ELSE Returned(self, walk_loop(self, walk_init(self, front, m), m))

get_draw_car(self, front, m) ==
    IF ~(front >= 0)
    THEN Returned(self, Panic(AssertFrontMsg, <<>>))
    ELSE IF Len(self.path) = 0
    THEN Returned(self, Panic(IndexMsg, <<>>))
    ELSE IF front >= self.vehicle_len
    THEN Returned(self, body_whole(self, front, m))
    ELSE Returned(self, walk_loop(self, walk_init(self, front, m), m))

(***************************************************************************)
(* The interpolation primitives (car.rs:91-116).  Duration, Distance and   *)
(* the f64 fraction are exact numbers: an integer for a time or a          *)
(* distance given by the caller, a fraction <<numerator, denominator>> in  *)
(* lowest terms with a positive denominator for a quotient or a product.   *)
(***************************************************************************)
MaxTime == 3
MaxDist == 3
MaxDen == 3

Abs(n) == IF n < 0 THEN 0 - n ELSE n

RECURSIVE GCD(_, _)
GCD(a, b) == IF b = 0 THEN a ELSE GCD(b, a % b)

\* n / d, d # 0.
Frac(n, d) ==
    LET g == GCD(Abs(n), Abs(d))
    IN IF d < 0 THEN <<(0 - n) \div g, (0 - d) \div g>> ELSE <<n \div g, d \div g>>

FracLe(a, b) == a[1] * b[2] <= b[1] * a[2]
FracLt(a, b) == a[1] * b[2] < b[1] * a[2]
Zero == Frac(0, 1)
One == Frac(1, 1)

AssertUnitMsg == <<"assertion failed: x >= 0.0 && x <= 1.0">>
Fatal(msg) == [kind |-> "panic", msg |-> msg, value |-> None]
Value(x) == [kind |-> "ok", msg |-> <<>>, value |-> Some(x)]

\* Every pair of times, of distances: the structs have public fields and
\* no constructor.
TimeIntervals == {[start |-> s, end |-> e] : s \in 0..MaxTime, e \in 0..MaxTime}
DistanceIntervals == {[start |-> s, end |-> e] : s \in 0..MaxDist, e \in 0..MaxDist}
Durations == (0 - 1)..(MaxTime + 1)
Fractions == {Frac(n, d) : n \in (0 - 1)..(MaxDen + 1), d \in 1..MaxDen}

\* Mutant: the quotient is returned unchecked.
percent_unchecked(self, t) ==
    IF self.end = self.start THEN Fatal(AssertUnitMsg)
    ELSE Value(Frac(t - self.start, self.end - self.start))

\* car.rs:97-103.  With start = end the quotient is NaN or infinite and the
\* assertion fails.
percent(self, t) ==
    IF self.end = self.start THEN Fatal(AssertUnitMsg)
    ELSE LET x == Frac(t - self.start, self.end - self.start)
         IN IF FracLe(Zero, x) /\ FracLe(x, One) THEN Value(x)
            ELSE Fatal(AssertUnitMsg)

\* Mutant: the interpolation runs from end to start.
lerp_from_end(self, x) ==
    IF ~(FracLe(Zero, x) /\ FracLe(x, One)) THEN Fatal(AssertUnitMsg)
    ELSE Value(Frac(self.end * x[2] + x[1] * (self.start - self.end), x[2]))

\* car.rs:111-116
lerp(self, x) ==
    IF ~(FracLe(Zero, x) /\ FracLe(x, One)) THEN Fatal(AssertUnitMsg)
    ELSE Value(Frac(self.start * x[2] + x[1] * (self.end - self.start), x[2]))

(***************************************************************************)
(* ezgui's Canvas (canvas.rs).  Screen coordinates and camera offsets are  *)
(* integers; cam_zoom is kept in tenths, so that the zoom 1.0 is           *)
(* ZoomUnit and ZOOM_SPEED = 0.1 is one.  glyphs is not part of the model; *)
(* the dimensions of a text are an input of draw_blocking_text.            *)
(***************************************************************************)
ZoomUnit == 10
ZOOM_SPEED == 1
MaxCam == 4
MaxZoom == 20
MaxCovered == 1

ScreenPt_new(x, y) == [x |-> x, y |-> y]
\* Three corners of the window.
ScreenPts == {ScreenPt_new(0, 0), ScreenPt_new(4, 0), ScreenPt_new(0, 4)}
WindowDims == <<4, 4>>
TextDims == {<<0, 0>>, <<2, 2>>}
Scrolls == {10}
Alignments == {<<"Left", "Bottom">>, <<"Right", "Top">>, <<"Center", "Center">>}

\* ScreenRectangle and ScreenRectangle::contains (screen_geom).
ScreenRectangle(x1, y1, x2, y2) == [x1 |-> x1, y1 |-> y1, x2 |-> x2, y2 |-> y2]
contains(rect, pt) ==
    pt.x >= rect.x1 /\ pt.x <= rect.x2 /\ pt.y >= rect.y1 /\ pt.y <= rect.y2

\* text::draw_text_bubble returns the rectangle the bubble covers.
draw_text_bubble(top_left, dims) ==
    ScreenRectangle(top_left.x, top_left.y, top_left.x + dims[1], top_left.y + dims[2])

\* UserInput: what its accessors report for one event.
UserInput ==
    [moved_mouse : {None} \cup {Some(pt) : pt \in ScreenPts},
     left_pressed : BOOLEAN,
     left_released : BOOLEAN,
     mouse_scroll : {None} \cup {Some(sc) : sc \in Scrolls},
     gained_cursor : BOOLEAN,
     lost_cursor : BOOLEAN]

NoInput ==
    [moved_mouse |-> None, left_pressed |-> FALSE, left_released |-> FALSE,
     mouse_scroll |-> None, gained_cursor |-> FALSE, lost_cursor |-> FALSE]

\* canvas.rs:36-66
Canvas_new(initial_width, initial_height) ==
    [cam_x |-> 0, cam_y |-> 0, cam_zoom |-> ZoomUnit,
     cursor_x |-> 0, cursor_y |-> 0, window_has_cursor |-> TRUE,
     left_mouse_drag_from |-> None,
     window_width |-> initial_width, window_height |-> initial_height,
     covered_areas |-> <<>>]

\* canvas.rs:68-70
is_dragging(self) == self.left_mouse_drag_from # None

\* canvas.rs:196-198
get_cursor_in_screen_space(self) == ScreenPt_new(self.cursor_x, self.cursor_y)

\* canvas.rs:216-221: a Pt2D, each coordinate the fraction <<numerator, denominator>>.
screen_to_map(self, pt) ==
    [x |-> <<(pt.x + self.cam_x) * ZoomUnit, self.cam_zoom>>,
     y |-> <<(pt.y + self.cam_y) * ZoomUnit, self.cam_zoom>>]

\* Mutant: the covered areas are not consulted.
get_cursor_in_map_space_ignores_covered(self) ==
    IF self.window_has_cursor
    THEN Some(screen_to_map(self, get_cursor_in_screen_space(self)))
    ELSE None

\* canvas.rs:200-214
get_cursor_in_map_space(self) ==
    IF self.window_has_cursor
    THEN LET pt == get_cursor_in_screen_space(self)
         IN IF \E k \in 1..Len(self.covered_areas) : contains(self.covered_areas[k], pt)
            THEN None
            ELSE Some(screen_to_map(self, pt))
    ELSE None

\* canvas.rs:184-194; delta_zoom in tenths.  The quotient is the code's when
\* the division leaves no remainder (ZoomExact).
zoom_towards_mouse(self, delta_zoom) ==
    LET old_zoom == self.cam_zoom
        added == self.cam_zoom + delta_zoom
        new_zoom == IF added <= ZOOM_SPEED THEN ZOOM_SPEED ELSE added
    IN [self EXCEPT
           !.cam_zoom = new_zoom,
           !.cam_x = ((new_zoom * (self.cursor_x + self.cam_x)) \div old_zoom)
                     - self.cursor_x,
           !.cam_y = ((new_zoom * (self.cursor_y + self.cam_y)) \div old_zoom)
                     - self.cursor_y]

ZoomExact(self, delta_zoom) ==
    LET added == self.cam_zoom + delta_zoom
        new_zoom == IF added <= ZOOM_SPEED THEN ZOOM_SPEED ELSE added
    IN /\ (new_zoom * (self.cursor_x + self.cam_x)) % self.cam_zoom = 0
       /\ (new_zoom * (self.cursor_y + self.cam_y)) % self.cam_zoom = 0

\* canvas.rs:73-82
moved_mouse(self, input) ==
    IF input.moved_mouse = None THEN self
    ELSE LET pt == input.moved_mouse[1]
             at == [self EXCEPT !.cursor_x = pt.x, !.cursor_y = pt.y]
         IN IF self.left_mouse_drag_from = None THEN at
            ELSE LET click == self.left_mouse_drag_from[1]
                 IN [at EXCEPT !.cam_x = self.cam_x + (click.x - pt.x),
                               !.cam_y = self.cam_y + (click.y - pt.y),
                               !.left_mouse_drag_from = Some(pt)]

\* canvas.rs:83-86
left_pressed(self, input) ==
    IF input.left_pressed /\ get_cursor_in_map_space(self) # None
    THEN [self EXCEPT !.left_mouse_drag_from = Some(get_cursor_in_screen_space(self))]
    ELSE self

\* canvas.rs:87-89
left_released(self, input) ==
    IF input.left_released THEN [self EXCEPT !.left_mouse_drag_from = None] ELSE self

\* canvas.rs:90-94: delta = scroll * ZOOM_SPEED * self.cam_zoom
scroll_delta(self, scroll) == (scroll * ZOOM_SPEED * self.cam_zoom) \div ZoomUnit

mouse_scrolled(self, input) ==
    IF input.mouse_scroll = None THEN self
    ELSE zoom_towards_mouse(self, scroll_delta(self, input.mouse_scroll[1]))

\* canvas.rs:95-100
cursor_gained_lost(self, input) ==
    LET gained == IF input.gained_cursor
                  THEN [self EXCEPT !.window_has_cursor = TRUE] ELSE self
    IN IF input.lost_cursor THEN [gained EXCEPT !.window_has_cursor = FALSE] ELSE gained

\* Mutant: the release is handled before the press.
handle_event_release_first(self, input) ==
    cursor_gained_lost(
        mouse_scrolled(left_pressed(left_released(moved_mouse(self, input), input),
                                    input), input), input)

\* canvas.rs:72-101
handle_event(self, input) ==
    cursor_gained_lost(
        mouse_scrolled(left_released(left_pressed(moved_mouse(self, input), input),
                                     input), input), input)

\* canvas.rs:103-109 (the part on covered_areas)
start_drawing(self) == [self EXCEPT !.covered_areas = <<>>]

\* canvas.rs:150-178
draw_blocking_text(self, dims, align) ==
    IF dims = <<0, 0>> THEN self
    ELSE LET x1 == CASE align[1] = "Left" -> 0
                     [] align[1] = "Center" -> (self.window_width - dims[1]) \div 2
                     [] align[1] = "Right" -> self.window_width - dims[1]
             y1 == CASE align[2] = "Top" -> 0
                     [] align[2] = "Center" -> (self.window_height - dims[2]) \div 2
                     [] align[2] = "Bottom" -> self.window_height - dims[2]
         IN [self EXCEPT !.covered_areas =
                 Append(self.covered_areas, draw_text_bubble(ScreenPt_new(x1, y1), dims))]

\* The events whose arithmetic the model's integers hold exactly and whose
\* result stays within the bounds of the model.
InModel(self, input) ==
    LET at == left_released(left_pressed(moved_mouse(self, input), input), input)
        after == handle_event(self, input)
    IN /\ IF input.mouse_scroll = None THEN TRUE
          ELSE /\ (input.mouse_scroll[1] * ZOOM_SPEED * at.cam_zoom) % ZoomUnit = 0
               /\ ZoomExact(at, scroll_delta(at, input.mouse_scroll[1]))
       /\ after.cam_zoom <= MaxZoom
       /\ after.cam_x \in (0 - MaxCam)..MaxCam
       /\ after.cam_y \in (0 - MaxCam)..MaxCam

(***************************************************************************)
(* The state: one vehicle (car), the segments it has exited so far, most   *)
(* recently exited first (exited, a history variable of the model), and    *)
(* the last operation applied with its input, the vehicle before it and    *)
(* what it returned (out); and the window's canvas (canvas).               *)
(***************************************************************************)
NoRet == [kind |-> "none", msg |-> <<>>, input |-> None, trace |-> <<>>]

Car(id, vehicle_len, max_speed, path, end_dist, state, last_steps) ==
    [id |-> id, vehicle_len |-> vehicle_len, max_speed |-> max_speed,
     path |-> path, end_dist |-> end_dist, state |-> state,
     last_steps |-> last_steps]

Done(op, front, before, ret) ==
    [op |-> op, front |-> front, before |-> before, ret |-> ret]

\* Any vehicle on a segment, with any history: the inputs of trim_last_steps
\* and get_draw_car.
Init ==
    /\ \E id \in CarIDs, vl \in VehicleLens, on \in Segs,
          st \in CarState, h \in SeqsUpTo(Segs, MaxHist) :
          car = Car(id, vl, None, <<on>>, length(on, map), st, h)
    /\ exited = car.last_steps
    /\ out = Done("new", 0, car, NoRet)
    /\ canvas = Canvas_new(WindowDims[1], WindowDims[2])

\* A vehicle as the engine spawns it: a full path, an empty history and a
\* Crossing status.
EngineInit ==
    /\ \E id \in CarIDs, vl \in VehicleLens, st \in CarState \ {Queued},
          p \in SeqsUpTo(Segs, MaxPath) \ {<<>>} :
          car = Car(id, vl, None, p, length(p[Len(p)], map), st, <<>>)
    /\ exited = <<>>
    /\ out = Done("new", 0, car, NoRet)
    /\ canvas = Canvas_new(WindowDims[1], WindowDims[2])

TrimLastSteps ==
    /\ car' = trim_last_steps(car, map)
    /\ out' = Done("trim_last_steps", 0, car, NoRet)
    /\ UNCHANGED <<exited, canvas>>

GetDrawCar ==
    \E front \in Fronts :
        /\ out' = Done("get_draw_car", front, car, get_draw_car(car, front, map))
        /\ UNCHANGED <<car, exited, canvas>>

\* The engine's update when the front passes the end of the current segment:
\* pop path's front, push it onto the front of last_steps, trim.
EngineStep ==
    /\ Len(car.path) > 1
    /\ LET on == Head(car.path)
           shifted == [car EXCEPT !.path = Tail(car.path),
                                  !.last_steps = <<on>> \o car.last_steps]
       IN /\ car' = trim_last_steps(shifted, map)
          /\ exited' = <<on>> \o exited
    /\ out' = Done("engine_step", 0, car, NoRet)
    /\ UNCHANGED canvas

\* The engine replaces the vehicle's status.
SetState ==
    \E st \in CarState :
        /\ st # car.state
        /\ car' = [car EXCEPT !.state = st]
        /\ out' = Done("set_state", 0, car, NoRet)
        /\ UNCHANGED <<exited, canvas>>

Next == TrimLastSteps \/ GetDrawCar

Spec == Init /\ [][Next]_vars

EngineNext == EngineStep \/ SetState \/ TrimLastSteps \/ GetDrawCar

EngineSpec == EngineInit /\ [][EngineNext]_vars

\* The interpolation primitives, called on any interval with any argument.
\* out holds the last call: the interval, the argument and what came back.
Applied(op, self, arg, ret) == [op |-> op, self |-> self, arg |-> arg, ret |-> ret]

InterpInit ==
    /\ out = Applied("new", [start |-> 0, end |-> 0], 0, Value(Zero))
    /\ car = Car(1, 0, None, <<1>>, length(1, map), Queued, <<>>)
    /\ exited = <<>>
    /\ canvas = Canvas_new(WindowDims[1], WindowDims[2])

Percent ==
    \E self \in TimeIntervals, t \in Durations :
        /\ out' = Applied("percent", self, t, percent(self, t))
        /\ UNCHANGED <<car, exited, canvas>>

Lerp ==
    \E self \in DistanceIntervals, x \in Fractions :
        /\ out' = Applied("lerp", self, x, lerp(self, x))
        /\ UNCHANGED <<car, exited, canvas>>

InterpNext == Percent \/ Lerp

InterpSpec == InterpInit /\ [][InterpNext]_vars

\* The window's life: a new Canvas, then events and drawing in any order.
\* out holds the last call and, for handle_event, its input.
Called(op, input) == [op |-> op, input |-> input]

CanvasInit ==
    /\ canvas = Canvas_new(WindowDims[1], WindowDims[2])
    /\ car = Car(1, 0, None, <<1>>, length(1, map), Queued, <<>>)
    /\ exited = <<>>
    /\ out = Called("new", NoInput)

HandleEvent ==
    \E input \in UserInput :
        /\ InModel(canvas, input)
        /\ canvas' = handle_event(canvas, input)
        /\ out' = Called("handle_event", input)
        /\ UNCHANGED <<car, exited>>

StartDrawing ==
    /\ canvas' = start_drawing(canvas)
    /\ out' = Called("start_drawing", NoInput)
    /\ UNCHANGED <<car, exited>>

DrawBlockingText ==
    \E dims \in TextDims, align \in Alignments :
        /\ Len(canvas.covered_areas) < MaxCovered
        /\ canvas' = draw_blocking_text(canvas, dims, align)
        /\ out' = Called("draw_blocking_text", NoInput)
        /\ UNCHANGED <<car, exited>>

CanvasNext == HandleEvent \/ StartDrawing \/ DrawBlockingText

CanvasSpec == CanvasInit /\ [][CanvasNext]_vars

(***************************************************************************)
(* Abbreviations for the properties: the last operation's input and        *)
(* result.                                                                 *)
(***************************************************************************)
Trimmed == out.op = "trim_last_steps"
Drawn == out.op = "get_draw_car"
InHistory == out.before.last_steps
OutHistory == car.last_steps
BodyLength == out.before.vehicle_len
Current == out.before.path[1]
Remaining == BodyLength - out.front
Spanning == Drawn /\ 0 <= out.front /\ out.front < BodyLength
Whole == Drawn /\ out.front >= BodyLength
Body == out.ret.input[1].body

Got(req) == slice(req.on, req.start, req.end, map)

HistoryRequests(trace) == SelectSeq(trace, LAMBDA r : r.from = "last_steps")

\* The pieces of the requests of a trace, the last request's piece first.
RECURSIVE PiecesLastFirst(_)
PiecesLastFirst(trace) ==
    IF trace = <<>> THEN <<>>
    ELSE PiecesLastFirst(Tail(trace)) \o points_or_empty(Got(trace[1]))

\* The number of history segments a walk visits that decrements the remaining
\* length by min(L, remaining).
RECURSIVE MinWalkVisits(_, _)
MinWalkVisits(steps, remaining) ==
    IF remaining <= 0 \/ steps = <<>> THEN 0
    ELSE LET L == length(steps[1], map)
             used == IF L <= remaining THEN L ELSE remaining
         IN 1 + MinWalkVisits(Tail(steps), remaining - used)

(***************************************************************************)
(* C1: trim_last_steps leaves a prefix of the input history; its           *)
(* accumulated length is >= body_length, or it is the entire input when    *)
(* the input's total length is less than body_length.                      *)
(***************************************************************************)
C1_TrimPrefixCovers ==
    Trimmed =>
        /\ IsPrefix(OutHistory, InHistory)
        /\ IF TotalLen(InHistory, map) < BodyLength
           THEN OutHistory = InHistory
           ELSE TotalLen(OutHistory, map) >= BodyLength

C1_Witness ==
    /\ Trimmed
    /\ BodyLength > 0
    /\ Len(OutHistory) >= 2
    /\ Len(OutHistory) < Len(InHistory)
    /\ TotalLen(OutHistory, map) > BodyLength

C1_WitnessInsufficient ==
    /\ Trimmed
    /\ Len(InHistory) >= 2
    /\ TotalLen(InHistory, map) < BodyLength

(***************************************************************************)
(* C2 as stated: in the trimmed history every proper prefix, the empty one *)
(* included, has accumulated length strictly less than body_length, and    *)
(* every later segment is discarded.                                       *)
(***************************************************************************)
C2_Original ==
    Trimmed =>
        /\ \A k \in 0..(Len(OutHistory) - 1) :
              TotalLen(SubSeq(OutHistory, 1, k), map) < BodyLength
        /\ OutHistory = SubSeq(InHistory, 1, Len(OutHistory))

(***************************************************************************)
(* C2 amended: every non-empty proper prefix of the trimmed history has    *)
(* accumulated length strictly less than body_length, segments are dropped *)
(* only once the running sum has reached body_length, and a non-empty      *)
(* history keeps at least its first segment (the threshold is tested only  *)
(* after a segment is kept, so with body_length = 0 one segment stays).    *)
(***************************************************************************)
C2_TrimStopsAtFirstReach ==
    Trimmed =>
        /\ \A k \in 1..(Len(OutHistory) - 1) :
              TotalLen(SubSeq(OutHistory, 1, k), map) < BodyLength
        /\ OutHistory = SubSeq(InHistory, 1, Len(OutHistory))
        /\ Len(OutHistory) < Len(InHistory) => TotalLen(OutHistory, map) >= BodyLength
        /\ InHistory # <<>> => OutHistory # <<>>

C2_Witness ==
    /\ Trimmed
    /\ Len(OutHistory) >= 2
    /\ Len(OutHistory) < Len(InHistory)
    /\ TotalLen(OutHistory, map) >= BodyLength
    /\ TotalLen(SubSeq(OutHistory, 1, Len(OutHistory) - 1), map) = BodyLength - 1

C2_WitnessZeroBody ==
    /\ Trimmed
    /\ BodyLength = 0
    /\ Len(InHistory) >= 2
    /\ Len(OutHistory) = 1

(***************************************************************************)
(* C3: trim_last_steps is idempotent: trimming an already-trimmed history  *)
(* again, with nothing pushed in between, leaves it as it is.              *)
(***************************************************************************)
C3_TrimIdempotent ==
    Trimmed => trim_last_steps(car, map) = car

C3_Witness ==
    /\ Trimmed
    /\ Len(OutHistory) >= 2
    /\ Len(OutHistory) < Len(InHistory)

(***************************************************************************)
(* C4: from a vehicle with a full path and an empty history, after any     *)
(* sequence of engine steps the history's total length is >= body_length   *)
(* or the history is every segment exited so far, most recent first.       *)
(***************************************************************************)
C4_HistoryInvariant ==
    /\ IsPrefix(car.last_steps, exited)
    /\ \/ TotalLen(car.last_steps, map) >= car.vehicle_len
       \/ car.last_steps = exited

C4_Witness ==
    /\ out.op = "engine_step"
    /\ car.vehicle_len > 0
    /\ Len(exited) > Len(car.last_steps)
    /\ TotalLen(car.last_steps, map) >= car.vehicle_len

C4_WitnessInsufficient ==
    /\ out.op = "engine_step"
    /\ Len(exited) >= 2
    /\ car.last_steps = exited
    /\ TotalLen(car.last_steps, map) < car.vehicle_len

(***************************************************************************)
(* C5: in get_draw_car with 0 <= front < body_length, a history whose      *)
(* total length is less than the remaining length ends in the panic that   *)
(* names the vehicle's id; no draw input (no body) is returned.            *)
(***************************************************************************)
C5_ExhaustionIsFatal ==
    (Spanning /\ TotalLen(InHistory, map) < Remaining) =>
        /\ out.ret.kind = "panic"
        /\ out.ret.msg = SpawnedTooCloseMsg(out.before.id)
        /\ out.ret.input = None

C5_Witness ==
    /\ Spanning
    /\ out.front = 0
    /\ InHistory = <<>>
    /\ BodyLength > 0

C5_WitnessPartial ==
    /\ Spanning
    /\ out.front > 0
    /\ Len(InHistory) >= 2
    /\ TotalLen(InHistory, map) > 0
    /\ TotalLen(InHistory, map) < Remaining

(***************************************************************************)
(* C6 as stated: for some history, body_length and front_offset, the walk  *)
(* of get_draw_car, which decrements the remaining length by the full      *)
(* segment length, ends before a walk decrementing by min(L, remaining)    *)
(* would, and the history slices cover less than the remaining length,     *)
(* although the history holds enough length.  The configurations are those *)
(* of a vehicle with the id and status of the present one.                 *)
(***************************************************************************)
C6_Original ==
    \E vl \in VehicleLens, on \in Segs,
       h \in SeqsUpTo(Segs, MaxHist), front \in 0..MaxFront :
        LET self == Car(car.id, vl, None, <<on>>, length(on, map), car.state, h)
            ret == get_draw_car(self, front, map)
            visited == HistoryRequests(ret.trace)
        IN /\ front < vl
           /\ TotalLen(h, map) >= vl - front
           /\ ret.kind = "ok"
           /\ Len(visited) < MinWalkVisits(h, vl - front)
           /\ PolyLine_length(PiecesLastFirst(visited)) < vl - front

(***************************************************************************)
(* C6 amended: decrementing the remaining length by the full segment       *)
(* length never ends the walk early: whenever get_draw_car returns in the  *)
(* spanning case, it has visited exactly the history segments that a walk  *)
(* decrementing by min(L, remaining) visits, and the history slices cover  *)
(* exactly body_length - front_offset.                                     *)
(***************************************************************************)
C6_FullDecrementCoversRemaining ==
    (Spanning /\ out.ret.kind = "ok") =>
        LET visited == HistoryRequests(out.ret.trace)
        IN /\ Len(visited) = MinWalkVisits(InHistory, Remaining)
           /\ PolyLine_length(PiecesLastFirst(visited)) = Remaining
           /\ PolyLine_length(Body) =
                  Remaining + PolyLine_length(points_or_empty(Got(out.ret.trace[1])))

C6_Witness ==
    /\ Spanning
    /\ out.ret.kind = "ok"
    /\ Len(HistoryRequests(out.ret.trace)) >= 2
    /\ Len(HistoryRequests(out.ret.trace)) < Len(InHistory)
    /\ TotalLen(SubSeq(InHistory, 1, Len(HistoryRequests(out.ret.trace))), map) > Remaining

(***************************************************************************)
(* C7 as stated: whenever front_offset >= body_length, the body is the     *)
(* slice of path[0] from front_offset - body_length to front_offset, no    *)
(* history segment is read, and the body's length is body_length.          *)
(***************************************************************************)
C7_Original ==
    Whole =>
        /\ out.ret.kind = "ok"
        /\ Body = <<[on |-> Current, start |-> out.front - BodyLength, end |-> out.front]>>
        /\ HistoryRequests(out.ret.trace) = <<>>
        /\ PolyLine_length(Body) = BodyLength

(***************************************************************************)
(* C7 amended: whenever front_offset >= body_length and the slice request  *)
(* is neither zero-length nor out of range (body_length > 0 and            *)
(* front_offset <= the length of path[0]), the body is the slice of        *)
(* path[0] from front_offset - body_length to front_offset and its length  *)
(* is body_length; in every case with front_offset >= body_length the one  *)
(* slice requested is that one and no history segment is read.             *)
(***************************************************************************)
C7_WholeBodyInCurrentSegment ==
    Whole =>
        /\ out.ret.trace =
              <<Request("path", 0, Current, out.front - BodyLength, out.front)>>
        /\ (BodyLength > 0 /\ out.front <= length(Current, map)) =>
              /\ out.ret.kind = "ok"
              /\ Body = <<[on |-> Current, start |-> out.front - BodyLength,
                           end |-> out.front]>>
              /\ PolyLine_length(Body) = BodyLength

C7_Witness ==
    /\ Whole
    /\ BodyLength > 0
    /\ out.front > BodyLength
    /\ out.front <= length(Current, map)
    /\ InHistory # <<>>

C7_WitnessExact ==
    /\ Whole
    /\ BodyLength > 0
    /\ out.front = BodyLength
    /\ out.ret.kind = "ok"

(***************************************************************************)
(* C8: in the spanning case the first slice requested is [0, front] of     *)
(* path[0]; history segment i (length L_i, remaining r_i = body_length -   *)
(* front - sum of L_j, j < i) is visited while r_i > 0 and its slice       *)
(* [max(0, L_i - r_i), L_i] is put in front of everything gathered so far; *)
(* a walk that returns stopped at the first i with r_i - L_i <= 0.         *)
(***************************************************************************)
C8_SpatialOrder ==
    Spanning =>
        LET trace == out.ret.trace
            n == Len(trace) - 1
            r(i) == Remaining - TotalLen(SubSeq(InHistory, 1, i), map)
        IN /\ n >= 0
           /\ n <= Len(InHistory)
           /\ trace[1] = Request("path", 0, Current, 0, out.front)
           /\ \A i \in 0..(n - 1) :
                 LET on == InHistory[i + 1]
                     L == length(on, map)
                 IN /\ r(i) > 0
                    /\ trace[i + 2] = Request("last_steps", i, on, Max(0, L - r(i)), L)
           /\ out.ret.kind = "ok" =>
                 /\ r(n) <= 0
                 /\ Body = PiecesLastFirst(trace)
                 /\ out.front > 0 /\ out.front <= length(Current, map) =>
                       Body[Len(Body)] = [on |-> Current, start |-> 0, end |-> out.front]

C8_Witness ==
    /\ Spanning
    /\ out.ret.kind = "ok"
    /\ Len(out.ret.trace) = 3
    /\ Len(Body) = 3
    /\ Len(InHistory) = 3
    /\ Body[1].start > 0

\* Scenario A scaled: body_length 3, front_offset 2, history[0] of length 1.
C8_WitnessScenarioA ==
    /\ Spanning
    /\ BodyLength = 3
    /\ out.front = 2
    /\ InHistory # <<>>
    /\ length(InHistory[1], map) = 1
    /\ out.ret.kind = "ok"
    /\ Body = <<[on |-> InHistory[1], start |-> 0, end |-> 1],
                [on |-> Current, start |-> 0, end |-> 2]>>

(***************************************************************************)
(* C9: get_draw_car with front_offset < 0 panics on its assertion before   *)
(* any slice is requested, and returns no draw input.                      *)
(***************************************************************************)
C9_NegativeFrontIsFatal ==
    (Drawn /\ out.front < 0) =>
        /\ out.ret.kind = "panic"
        /\ out.ret.msg = AssertFrontMsg
        /\ out.ret.input = None
        /\ out.ret.trace = <<>>

C9_Witness ==
    /\ Drawn
    /\ out.front < 0
    /\ InHistory # <<>>

(***************************************************************************)
(* C10: a slice request that returns None contributes nothing in the       *)
(* spanning case (for path[0]'s slice and for each history slice; the walk *)
(* goes on with the remaining length decremented by the segment's length), *)
(* and is fatal when front_offset >= body_length.                          *)
(***************************************************************************)
C10_NoneIsEmptyOrFatal ==
    (Drawn /\ out.front >= 0) =>
        IF out.front >= BodyLength
        THEN Got(Request("path", 0, Current, out.front - BodyLength, out.front)) = None =>
                 /\ out.ret.kind = "panic"
                 /\ out.ret.msg = UnwrapNoneMsg
                 /\ out.ret.input = None
        ELSE LET trace == out.ret.trace
                 answered == SelectSeq(trace, LAMBDA q : Got(q) # None)
                 \* the remaining length after the k-th request of the trace
                 after(k) == Remaining - TotalLen(SubSeq(InHistory, 1, k - 1), map)
             IN /\ out.ret.msg # UnwrapNoneMsg
                /\ out.ret.kind = "ok" =>
                      /\ Len(Body) = Len(answered)
                      /\ \A j \in 1..Len(Body) :
                            Body[j] = Got(answered[Len(answered) + 1 - j])[1][1]
                /\ \A k \in 1..Len(trace) :
                      Got(trace[k]) = None =>
                          IF k < Len(trace)
                          THEN after(k) > 0 /\ trace[k + 1].idx = k - 1
                          ELSE IF after(k) <= 0
                          THEN out.ret.kind = "ok"
                          ELSE /\ out.ret.msg = SpawnedTooCloseMsg(out.before.id)
                               /\ Len(InHistory) = k - 1

C10_Witness ==
    /\ Spanning
    /\ out.ret.kind = "ok"
    /\ Got(out.ret.trace[1]) = None
    /\ Len(out.ret.trace) = 3
    /\ Got(out.ret.trace[2]) = None
    /\ Len(Body) = 1

C10_WitnessFatal ==
    /\ Whole
    /\ out.ret.kind = "panic"
    /\ out.ret.msg = UnwrapNoneMsg

(***************************************************************************)
(* A network is any set of segments that holds the segments the vehicle    *)
(* has traversed; trim_last_steps reads the length of no other segment.    *)
(***************************************************************************)
SegsOf(steps) == {steps[k] : k \in 1..Len(steps)}

MinSegLen(network) ==
    CHOOSE l \in {length(on, map) : on \in network} :
        \A on \in network : l <= length(on, map)

Networks(steps) ==
    {network \in SUBSET Segs :
        /\ network # {}
        /\ SegsOf(steps) \subseteq network
        /\ MinSegLen(network) > 0}

(***************************************************************************)
(* C11 as stated: after trim_last_steps the number of segments kept is at  *)
(* most body_length divided by the minimum segment length of the network   *)
(* (stated here for body_length > 0 only).                                 *)
(***************************************************************************)
C11_Original ==
    (Trimmed /\ BodyLength > 0) =>
        \A network \in Networks(InHistory) :
            Len(OutHistory) * MinSegLen(network) <= BodyLength

(***************************************************************************)
(* C11 amended: after trim_last_steps the number of segments kept is at    *)
(* most body_length divided by the minimum segment length rounded up, and  *)
(* at most one when body_length is 0: all kept segments but the last have  *)
(* accumulated length < body_length, the last one may overshoot.           *)
(***************************************************************************)
C11_KeptSegmentsBounded ==
    Trimmed =>
        \A network \in Networks(InHistory) :
            \/ Len(OutHistory) <= 1
            \/ (Len(OutHistory) - 1) * MinSegLen(network) < BodyLength

C11_Witness ==
    /\ Trimmed
    /\ BodyLength > 0
    /\ Len(OutHistory) >= 2
    /\ Len(OutHistory) < Len(InHistory)
    /\ \E network \in Networks(InHistory) :
          Len(OutHistory) * MinSegLen(network) > BodyLength

(***************************************************************************)
(* C12 as stated: trim_last_steps leaves the history unchanged whenever    *)
(* the first one or more segments of the history already have accumulated  *)
(* length >= body_length.                                                  *)
(***************************************************************************)
C12_Original ==
    (Trimmed /\ \E k \in 1..Len(InHistory) :
                    TotalLen(SubSeq(InHistory, 1, k), map) >= BodyLength) =>
        OutHistory = InHistory

(***************************************************************************)
(* C12 amended: trim_last_steps leaves the history unchanged exactly when  *)
(* no non-empty proper prefix of it has accumulated length >= body_length  *)
(* (the threshold is reached by the whole history at the earliest, or not  *)
(* at all); when the first k segments, k < len, reach body_length, the     *)
(* segments after the first such k are dropped.                            *)
(***************************************************************************)
C12_NoOpWhenAlreadyTrimmed ==
    Trimmed =>
        LET reached == {k \in 1..(Len(InHistory) - 1) :
                           TotalLen(SubSeq(InHistory, 1, k), map) >= BodyLength}
        IN /\ (OutHistory = InHistory) <=> (reached = {})
           /\ reached # {} =>
                 /\ Len(OutHistory) \in reached
                 /\ \A k \in reached : Len(OutHistory) <= k

C12_Witness ==
    /\ Trimmed
    /\ BodyLength > 0
    /\ Len(InHistory) >= 2
    /\ TotalLen(InHistory, map) >= BodyLength
    /\ OutHistory = InHistory

C12_WitnessDropped ==
    /\ Trimmed
    /\ BodyLength > 0
    /\ Len(InHistory) >= 2
    /\ TotalLen(SubSeq(InHistory, 1, 1), map) >= BodyLength
    /\ OutHistory # InHistory

(***************************************************************************)
(* C15: the draw input returned by get_draw_car reports Stuck when the     *)
(* vehicle's state is Queued and Moving when it is Crossing, whatever the  *)
(* intervals of the Crossing, and reports path[0] as the segment it is on. *)
(***************************************************************************)
C15_StatusMapping ==
    (Drawn /\ out.ret.kind = "ok") =>
        LET input == out.ret.input[1]
        IN /\ out.before.state = Queued => input.state = "Stuck"
           /\ out.before.state[1] = "Crossing" => input.state = "Moving"
           /\ input.state \in {"Stuck", "Moving"}
           /\ input.on = out.before.path[1]

C15_Witness ==
    /\ Drawn
    /\ out.ret.kind = "ok"
    /\ out.before.state[1] = "Crossing"
    /\ out.before.state[3].start = out.before.state[3].end
    /\ out.ret.input[1].state = "Moving"

C15_WitnessQueued ==
    /\ Drawn
    /\ out.ret.kind = "ok"
    /\ out.before.state = Queued
    /\ Len(out.ret.trace) >= 2

(***************************************************************************)
(* C16: get_draw_car leaves every field of the vehicle unchanged, whether  *)
(* it returns or panics; trim_last_steps changes last_steps only.          *)
(***************************************************************************)
C16_Frame ==
    /\ Drawn => car = out.before
    /\ Trimmed => car = [out.before EXCEPT !.last_steps = car.last_steps]

C16_Witness ==
    /\ Trimmed
    /\ car.last_steps # out.before.last_steps
    /\ car.state # Queued

C16_WitnessDrawn ==
    /\ Drawn
    /\ out.ret.kind = "panic"
    /\ Len(out.ret.trace) >= 2

(***************************************************************************)
(* C17: with the engine's update (pop, push, trim) taken as one step, a    *)
(* get_draw_car with front_offset >= 0 on a vehicle whose history's total  *)
(* length is >= body_length never ends in the history-exhaustion panic.    *)
(***************************************************************************)
C17_NoExhaustionWhenCovered ==
    (Drawn /\ out.front >= 0 /\ TotalLen(InHistory, map) >= BodyLength) =>
        out.ret.msg # SpawnedTooCloseMsg(out.before.id)

C17_Witness ==
    /\ Drawn
    /\ out.front = 0
    /\ BodyLength > 0
    /\ TotalLen(InHistory, map) = BodyLength
    /\ Len(InHistory) >= 2
    /\ Len(exited) >= 2
    /\ out.ret.kind = "ok"

(***************************************************************************)
(* C18: trimming does not change what get_draw_car returns: for every      *)
(* front_offset >= 0 the vehicle before trim_last_steps and the vehicle    *)
(* after it give the same slices in the same order, or both the            *)
(* history-exhaustion panic.                                               *)
(***************************************************************************)
C18_TrimPreservesDrawing ==
    Trimmed =>
        \A front \in 0..MaxFront :
            get_draw_car(out.before, front, map) = get_draw_car(car, front, map)

C18_Witness ==
    /\ Trimmed
    /\ Len(OutHistory) >= 2
    /\ Len(OutHistory) < Len(InHistory)
    /\ \E front \in 0..MaxFront :
          LET ret == get_draw_car(car, front, map)
          IN ret.kind = "ok" /\ Len(ret.trace) = Len(OutHistory) + 1

C18_WitnessExhausted ==
    /\ Trimmed
    /\ InHistory # <<>>
    /\ get_draw_car(car, 0, map).msg = SpawnedTooCloseMsg(car.id)


(***************************************************************************)
(* Canvas: the last event and the press it reports.                        *)
(***************************************************************************)
Handled == out.op = "handle_event"

\* The canvas when the press of the event `input' is looked at: after the
\* event's mouse movement, before its release, scroll and cursor changes.
AtPress(self, input) == moved_mouse(self, input)

\* The press of the event is accepted: the window has the cursor and the
\* cursor lies in no covered rectangle.
Accepted(self, input) ==
    LET at == AtPress(self, input)
    IN /\ at.window_has_cursor
       /\ \A k \in 1..Len(at.covered_areas) :
              ~contains(at.covered_areas[k], ScreenPt_new(at.cursor_x, at.cursor_y))

OnCovered(self) ==
    \E k \in 1..Len(self.covered_areas) :
        contains(self.covered_areas[k], ScreenPt_new(self.cursor_x, self.cursor_y))

\* C19: in handle_event a left-button press starts a drag only if the window
\* has the cursor and the cursor lies in no rectangle of covered_areas, and an
\* accepted press sets left_mouse_drag_from to the cursor; a press on a
\* covered area, or while the window has lost the cursor, leaves
\* left_mouse_drag_from as it is: as the event's mouse movement left it, and
\* equal to its value before the event when the event reports no movement.
C19_PressGated ==
    [][(out'.op = "handle_event") =>
        LET input == out'.input
            at == AtPress(canvas, input)
        IN /\ (~is_dragging(canvas) /\ is_dragging(canvas'))
                  => (input.left_pressed /\ Accepted(canvas, input))
           /\ (input.left_pressed /\ Accepted(canvas, input) /\ ~input.left_released)
                  => canvas'.left_mouse_drag_from
                         = Some(ScreenPt_new(canvas'.cursor_x, canvas'.cursor_y))
           /\ (input.left_pressed /\ ~Accepted(canvas, input) /\ ~input.left_released)
                  => /\ canvas'.left_mouse_drag_from = at.left_mouse_drag_from
                     /\ (input.moved_mouse = None)
                            => (canvas'.left_mouse_drag_from
                                    = canvas.left_mouse_drag_from)
    ]_vars

\* A press on a covered area that started no drag.
C19_Witness ==
    /\ Handled
    /\ out.input.left_pressed /\ ~out.input.left_released
    /\ ~out.input.gained_cursor /\ ~out.input.lost_cursor
    /\ canvas.window_has_cursor
    /\ OnCovered(canvas)
    /\ ~is_dragging(canvas)

\* A press beside a covered area that started a drag.
C19_WitnessAccepted ==
    /\ Handled
    /\ out.input.left_pressed /\ ~out.input.left_released
    /\ ~out.input.gained_cursor /\ ~out.input.lost_cursor
    /\ canvas.window_has_cursor
    /\ canvas.covered_areas # <<>>
    /\ ~OnCovered(canvas)
    /\ canvas.left_mouse_drag_from
           = Some(ScreenPt_new(canvas.cursor_x, canvas.cursor_y))

\* A press while the window has lost the cursor, off every covered area.
C19_WitnessLostCursor ==
    /\ Handled
    /\ out.input.left_pressed /\ ~out.input.left_released
    /\ ~out.input.gained_cursor /\ ~out.input.lost_cursor
    /\ ~canvas.window_has_cursor
    /\ ~OnCovered(canvas)
    /\ ~is_dragging(canvas)

\* C20: from a new Canvas on, is_dragging() is true only after an accepted
\* left-button press with no release since: every event reporting a release
\* leaves is_dragging() false, also when it reports a press; is_dragging()
\* becomes true only by an accepted press and nothing but handle_event
\* changes it; and an event without scroll changes cam_x or cam_y only when
\* it reports mouse movement while is_dragging() is true.
C20_DragLifecycle ==
    /\ ~is_dragging(Canvas_new(WindowDims[1], WindowDims[2]))
    /\ [][/\ (out'.op # "handle_event") =>
                 /\ canvas'.left_mouse_drag_from = canvas.left_mouse_drag_from
                 /\ canvas'.cam_x = canvas.cam_x /\ canvas'.cam_y = canvas.cam_y
          /\ (out'.op = "handle_event") =>
                 LET input == out'.input
                 IN /\ input.left_released => ~is_dragging(canvas')
                    /\ is_dragging(canvas')
                           => \/ is_dragging(canvas)
                              \/ input.left_pressed /\ Accepted(canvas, input)
                    /\ (input.mouse_scroll = None
                            /\ (canvas'.cam_x # canvas.cam_x
                                    \/ canvas'.cam_y # canvas.cam_y))
                           => (is_dragging(canvas) /\ input.moved_mouse # None)
                    /\ (input.mouse_scroll = None /\ is_dragging(canvas)
                            /\ input.moved_mouse # None)
                           => LET click == canvas.left_mouse_drag_from[1]
                                  pt == input.moved_mouse[1]
                              IN /\ canvas'.cam_x = canvas.cam_x + (click.x - pt.x)
                                 /\ canvas'.cam_y = canvas.cam_y + (click.y - pt.y)
       ]_vars

\* An event reporting an accepted press and a release: no drag afterwards.
C20_Witness ==
    /\ Handled
    /\ out.input.left_pressed /\ out.input.left_released
    /\ ~out.input.gained_cursor /\ ~out.input.lost_cursor
    /\ canvas.window_has_cursor /\ ~OnCovered(canvas)
    /\ ~is_dragging(canvas)

\* A drag that moved the camera.
C20_WitnessPanned ==
    /\ Handled
    /\ out.input.moved_mouse # None /\ out.input.mouse_scroll = None
    /\ is_dragging(canvas)
    /\ canvas.cam_x # 0
    /\ canvas.cam_zoom = ZoomUnit

\* Mouse movement without a drag: the cursor moved, the camera did not.
C20_WitnessMovedOnly ==
    /\ Handled
    /\ out.input.moved_mouse # None /\ out.input.mouse_scroll = None
    /\ ~out.input.left_pressed
    /\ ~is_dragging(canvas)
    /\ canvas.cursor_x # 0
    /\ canvas.cam_x = 0 /\ canvas.cam_y = 0 /\ canvas.cam_zoom = ZoomUnit


(***************************************************************************)
(* Interpolation: the last call.                                           *)
(***************************************************************************)
PercentOf(self, t) == percent(self, t).value[1]
LerpOf(self, x) == lerp(self, x).value[1]
InUnit(x) == FracLe(Zero, x) /\ FracLe(x, One)

\* C13: for a TimeInterval with start < end, percent(start) = 0,
\* percent(end) = 1, percent is strictly increasing in t over [start, end],
\* and percent(t) for t < start or t > end fails the assertion and returns no
\* value.
C13_PercentContract ==
    (out.op = "percent" /\ out.self.start < out.self.end) =>
        LET self == out.self
            inside == self.start..self.end
        IN /\ percent(self, self.start) = Value(Zero)
           /\ percent(self, self.end) = Value(One)
           /\ \A t1 \in inside, t2 \in inside :
                  t1 < t2 => FracLt(PercentOf(self, t1), PercentOf(self, t2))
           /\ (out.arg \in inside) => out.ret.kind = "ok"
           /\ (out.arg \notin inside) => out.ret = Fatal(AssertUnitMsg)

\* percent called with a time after end: fatal.
C13_Witness ==
    /\ out.op = "percent"
    /\ out.self.start < out.self.end
    /\ out.arg > out.self.end
    /\ out.ret.kind = "panic"

\* percent called with a time before start: fatal.
C13_WitnessBefore ==
    /\ out.op = "percent"
    /\ out.self.start < out.self.end
    /\ out.arg < out.self.start
    /\ out.ret.kind = "panic"

\* percent called strictly inside an interval: a value strictly between.
C13_WitnessInside ==
    /\ out.op = "percent"
    /\ out.self.start < out.arg /\ out.arg < out.self.end
    /\ out.ret.kind = "ok"
    /\ FracLt(Zero, out.ret.value[1]) /\ FracLt(out.ret.value[1], One)

\* C14: for a DistanceInterval with start <= end, lerp(0) = start,
\* lerp(1) = end, lerp is non-decreasing in x over [0, 1], and lerp(x) for
\* x < 0 or x > 1 fails the assertion and returns no distance.
C14_LerpContract ==
    (out.op = "lerp" /\ out.self.start <= out.self.end) =>
        LET self == out.self
            unit == {x \in Fractions : InUnit(x)}
        IN /\ lerp(self, Zero) = Value(Frac(self.start, 1))
           /\ lerp(self, One) = Value(Frac(self.end, 1))
           /\ \A x1 \in unit, x2 \in unit :
                  FracLe(x1, x2) => FracLe(LerpOf(self, x1), LerpOf(self, x2))
           /\ InUnit(out.arg) => out.ret.kind = "ok"
           /\ ~InUnit(out.arg) => out.ret = Fatal(AssertUnitMsg)

\* lerp called with a fraction above one: fatal.
C14_Witness ==
    /\ out.op = "lerp"
    /\ out.self.start <= out.self.end
    /\ FracLt(One, out.arg)
    /\ out.ret.kind = "panic"

\* lerp called with a negative fraction: fatal.
C14_WitnessNegative ==
    /\ out.op = "lerp"
    /\ out.self.start <= out.self.end
    /\ FracLt(out.arg, Zero)
    /\ out.ret.kind = "panic"

\* lerp called strictly inside: a distance strictly between start and end.
C14_WitnessInside ==
    /\ out.op = "lerp"
    /\ out.self.start < out.self.end
    /\ FracLt(Zero, out.arg) /\ FracLt(out.arg, One)
    /\ out.ret.kind = "ok"
    /\ FracLt(Frac(out.self.start, 1), out.ret.value[1])
    /\ FracLt(out.ret.value[1], Frac(out.self.end, 1))

====
